---- MODULE Spec2Model ----
(***************************************************************************)
(* Model of vialsort.py: the vial board, its two reversible actions        *)
(* (PourAction, AddEmptyVialAction), the undo history and is_solved.       *)
(*                                                                         *)
(* Python lists are sequences; the top of a vial is the END of its         *)
(* sequence.  Vial indices are 0-based as in the source: At(vs, i) is      *)
(* board.vials[i].                                                         *)
(***************************************************************************)
EXTENDS Integers, Sequences, FiniteSets, TLC

\* ---------------------------------------------------------------- bounds
MaxVialSize == 2
MaxVials == 2
MaxColor == 1
MaxUnits == 3
MaxNumVials == 3
MaxHistory == 2

VARIABLES
    vial_size,   \* Board.vial_size
    vials,       \* Board.vials: sequence of vials, each a sequence of units
    history,     \* Board._history: sequence of action objects, newest last
    pc,          \* where the caller is: "idle", "hung" (in a call that never
                 \* returns), "raised" (the last call raised), and around a
                 \* PourAction object used directly "constructed", "applied",
                 \* "undone"; in play_board "render" (top of the loop),
                 \* "prompt" (waiting in input()), "done" (returned) and
                 \* "crashed" (left by an exception); in main "main"
                 \* (at the for statement), "playing" (in play_board),
                 \* "returned" and "crashed"
    op,          \* the last operation called: "none", "pour", "add", "undo",
                 \* "is_solved", "construct", "apply", "action_undo", "apply_add"
    act,         \* the action object the caller holds: the PourAction used
                 \* directly, or the action Board.undo popped last; NoAction
                 \* otherwise (Board.pour and Board.add_empty_vial hand theirs
                 \* to the history or drop it)
    ret,         \* what the last apply / is_solved returned
    error,       \* the exception the last operation raised, "none" if none
    snap,        \* Board.vials as they were when the last operation was called
    hsnap,       \* Board._history as it was when the last operation was called
    init_vials,  \* vials as given to Board.__init__
    init_size,   \* vial_size as given to Board.__init__
    selected_vial_index,  \* play_board: the remembered source vial, or None
    comment,     \* play_board: the feedback to print at the next render
    playing,     \* play_board: the loop's flag
    user_line,   \* play_board: the line read last, stripped
    line,        \* main: the line of the puzzle file read last
    line_no,     \* main: the number of that line
    board,       \* main: the Board load_board returned for it
    status       \* main: "running", or what main returned

\* what play_board keeps besides the board
playvars == <<selected_vial_index, comment, playing, user_line>>

\* what main keeps
mainvars == <<line, line_no, board, status>>

vars == <<vial_size, vials, history, pc, op, act, ret, error, snap, hsnap, init_vials, init_size, selected_vial_index, comment, playing, user_line, line, line_no, board, status>>

\* no line read yet, no Board loaded yet
NoLine == [t |-> "none"]
NoBoard == [loaded |-> FALSE]

\* selected_vial_index = None (an index is never negative)
None == -1

\* ----------------------------------------------------------- list helpers
Units == 0..MaxColor

\* board.vials[i], i a 0-based index
At(vs, i) == vs[i + 1]

\* vial[-1]
Top(vial) == vial[Len(vial)]

\* the list after vial.pop()
Popped(vial) == SubSeq(vial, 1, Len(vial) - 1)

\* the 0-based indices of a list
Indices(vs) == 0..(Len(vs) - 1)

VialsUpTo(size) == UNION {[1..n -> Units] : n \in 0..size}

RECURSIVE NumUnits(_)
NumUnits(vs) == IF Len(vs) = 0 THEN 0 ELSE Len(Top(vs)) + NumUnits(Popped(vs))

BoardsOf(size) == {b \in UNION {[1..m -> VialsUpTo(size)] : m \in 0..MaxVials} : NumUnits(b) <= MaxUnits}

\* ------------------------------------------------------------ PourAction
NoAction == [kind |-> "none"]

\* PourAction.__init__
PourAction(from_index, to_index) == [kind |-> "pour", from_index |-> from_index, to_index |-> to_index, qty_moved |-> 0, applied |-> FALSE]

\* LoopCond without its capacity test
LoopCond_NoCapacity(vs, f, t, color, size) == Len(At(vs, f)) > 0 /\ Top(At(vs, f)) = color

\* the condition of the while loop of PourAction.apply
LoopCond(vs, f, t, color, size) == Len(At(vs, f)) > 0 /\ Top(At(vs, f)) = color /\ Len(At(vs, t)) < size

\* LoopBody appending to the vial after to_index (an index off by one)
LoopBody_WrongDest(vs, f, t) == LET appended == [vs EXCEPT ![((t + 1) % Len(vs)) + 1] = Append(@, Top(At(vs, f)))] IN [appended EXCEPT ![f + 1] = Popped(@)]

\* LoopBody without from_vial.pop()
LoopBody_NoPop(vs, f, t) == [vs EXCEPT ![t + 1] = Append(@, Top(At(vs, f)))]

\* one iteration of the while loop of PourAction.apply, on the list of vials:
\* to_vial.append(from_vial[-1]) and then from_vial.pop().  from_vial and
\* to_vial are the same list object when f = t.
LoopBody(vs, f, t) == LET appended == [vs EXCEPT ![t + 1] = Append(@, Top(At(vs, f)))] IN [appended EXCEPT ![f + 1] = Popped(@)]

\* The while loop of PourAction.apply.  The condition reads only the two
\* vials, color and vial_size, and the body changes only the vials and
\* qty_moved: when an iteration leaves the vials as they were the condition
\* stays true for ever and the loop never exits (hung).
RECURSIVE PourLoop(_, _, _, _, _, _)
PourLoop(vs, f, t, color, size, qty) ==
    IF ~LoopCond(vs, f, t, color, size)
    THEN [vials |-> vs, qty_moved |-> qty, hung |-> FALSE]
    ELSE IF LoopBody(vs, f, t) = vs
         THEN [vials |-> vs, qty_moved |-> qty, hung |-> TRUE]
         ELSE PourLoop(LoopBody(vs, f, t), f, t, color, size, qty + 1)

\* PourAction.apply setting _qty_moved to 1 in the loop instead of adding 1
PourAction_apply_CountsOne(a, vs, size) ==
    LET f == a.from_index
        t == a.to_index
        a1 == [a EXCEPT !.applied = TRUE]
    IN  IF Len(At(vs, f)) = 0
        THEN [action |-> a1, vials |-> vs, ret |-> FALSE, hung |-> FALSE]
        ELSE IF Len(At(vs, t)) > 0 /\ Top(At(vs, t)) # Top(At(vs, f))
        THEN [action |-> a1, vials |-> vs, ret |-> FALSE, hung |-> FALSE]
        ELSE LET r == PourLoop(vs, f, t, Top(At(vs, f)), size, a1.qty_moved)
                 q == IF r.qty_moved > 0 THEN 1 ELSE 0
             IN  [action |-> [a1 EXCEPT !.qty_moved = q], vials |-> r.vials, ret |-> q > 0, hung |-> r.hung]

\* PourAction.apply without the test of the destination's top colour
PourAction_apply_NoColourTest(a, vs, size) ==
    LET f == a.from_index
        t == a.to_index
        a1 == [a EXCEPT !.applied = TRUE]
    IN  IF Len(At(vs, f)) = 0
        THEN [action |-> a1, vials |-> vs, ret |-> FALSE, hung |-> FALSE]
        ELSE LET r == PourLoop(vs, f, t, Top(At(vs, f)), size, a1.qty_moved)
             IN  [action |-> [a1 EXCEPT !.qty_moved = r.qty_moved], vials |-> r.vials, ret |-> r.qty_moved > 0, hung |-> r.hung]

\* PourAction.apply(board): the action object, the vials and the value
\* returned (ret), or hung when the call never returns (ret and qty_moved
\* then say nothing: the loop is still counting).
PourAction_apply(a, vs, size) ==
    LET f == a.from_index
        t == a.to_index
        a1 == [a EXCEPT !.applied = TRUE]
    IN  IF Len(At(vs, f)) = 0
        THEN [action |-> a1, vials |-> vs, ret |-> FALSE, hung |-> FALSE]
        ELSE IF Len(At(vs, t)) > 0 /\ Top(At(vs, t)) # Top(At(vs, f))
        THEN [action |-> a1, vials |-> vs, ret |-> FALSE, hung |-> FALSE]
        ELSE LET r == PourLoop(vs, f, t, Top(At(vs, f)), size, a1.qty_moved)
             IN  [action |-> [a1 EXCEPT !.qty_moved = r.qty_moved], vials |-> r.vials, ret |-> r.qty_moved > 0, hung |-> r.hung]

\* UndoBody reading to_vial[-1] without popping it
UndoBody_KeepsUnit(vs, f, t) == [vs EXCEPT ![f + 1] = Append(@, Top(At(vs, t)))]

\* one iteration of the for loop of PourAction.undo:
\* from_vial.append(to_vial.pop())
UndoBody(vs, f, t) == LET popped == [vs EXCEPT ![t + 1] = Popped(@)] IN [popped EXCEPT ![f + 1] = Append(@, Top(At(vs, t)))]

\* the for loop of PourAction.undo; list.pop() of an empty list raises
\* IndexError and leaves what was moved so far
RECURSIVE UndoLoop(_, _, _, _)
UndoLoop(vs, f, t, n) ==
    IF n = 0
    THEN [vials |-> vs, error |-> "none"]
    ELSE IF Len(At(vs, t)) = 0
         THEN [vials |-> vs, error |-> "IndexError"]
         ELSE UndoLoop(UndoBody(vs, f, t), f, t, n - 1)

\* PourAction.undo without the test of _applied
PourAction_undo_NoAppliedTest(a, vs) == UndoLoop(vs, a.from_index, a.to_index, a.qty_moved)

\* PourAction.undo(board)
PourAction_undo(a, vs) ==
    IF ~a.applied
    THEN [vials |-> vs, error |-> "ValueError"]
    ELSE UndoLoop(vs, a.from_index, a.to_index, a.qty_moved)

\* ---------------------------------------------------- AddEmptyVialAction
AddEmptyVialAction == [kind |-> "add"]

\* AddEmptyVialAction.apply(board)
AddEmptyVialAction_apply(a, vs) == [action |-> a, vials |-> Append(vs, <<>>), ret |-> TRUE, hung |-> FALSE]

\* AddEmptyVialAction.undo popping the first vial: board.vials.pop(0)
AddEmptyVialAction_undo_First(a, vs) ==
    IF Len(vs) = 0
    THEN [vials |-> vs, error |-> "IndexError"]
    ELSE [vials |-> SubSeq(vs, 2, Len(vs)), error |-> "none"]

\* AddEmptyVialAction.undo that removes no vial
AddEmptyVialAction_undo_Keeps(a, vs) == [vials |-> vs, error |-> "none"]

\* AddEmptyVialAction.undo(board): board.vials.pop()
AddEmptyVialAction_undo(a, vs) ==
    IF Len(vs) = 0
    THEN [vials |-> vs, error |-> "IndexError"]
    ELSE [vials |-> Popped(vs), error |-> "none"]

\* ----------------------------------------------------------------- Board
\* action.apply(board), dispatched on the class of the action
Action_apply(a, vs, size) == IF a.kind = "pour" THEN PourAction_apply(a, vs, size) ELSE AddEmptyVialAction_apply(a, vs)

\* action.undo(board), dispatched on the class of the action
Action_undo(a, vs) == IF a.kind = "pour" THEN PourAction_undo(a, vs) ELSE AddEmptyVialAction_undo(a, vs)

\* Board.apply_action appending the action whatever apply returned
apply_action_AlwaysRecords(a, vs, hist, size) ==
    LET r == Action_apply(a, vs, size)
    IN  [action |-> r.action, vials |-> r.vials, ret |-> r.ret, hung |-> r.hung,
         history |-> IF r.hung THEN hist ELSE Append(hist, r.action)]

\* Board.apply_action(action): the vials and history it leaves
apply_action(a, vs, hist, size) ==
    LET r == Action_apply(a, vs, size)
    IN  [action |-> r.action, vials |-> r.vials, ret |-> r.ret, hung |-> r.hung,
         history |-> IF r.hung \/ ~r.ret THEN hist ELSE Append(hist, r.action)]

\* Board.undo without the test of an empty history: list.pop() raises
Board_undo_NoEmptyTest(vs, hist) ==
    IF Len(hist) = 0
    THEN [vials |-> vs, history |-> hist, error |-> "IndexError", action |-> NoAction]
    ELSE LET r == Action_undo(Top(hist), vs)
         IN  [vials |-> r.vials, history |-> Popped(hist), error |-> r.error, action |-> Top(hist)]

\* Board.undo reading self._history[-1] without popping it
Board_undo_KeepsEntry(vs, hist) ==
    IF Len(hist) = 0
    THEN [vials |-> vs, history |-> hist, error |-> "none", action |-> NoAction]
    ELSE LET r == Action_undo(Top(hist), vs)
         IN  [vials |-> r.vials, history |-> hist, error |-> r.error, action |-> Top(hist)]

\* Board.undo(): the vials and history it leaves
Board_undo(vs, hist) ==
    IF Len(hist) = 0
    THEN [vials |-> vs, history |-> hist, error |-> "none", action |-> NoAction]
    ELSE LET r == Action_undo(Top(hist), vs)
         IN  [vials |-> r.vials, history |-> Popped(hist), error |-> r.error, action |-> Top(hist)]

\* the inner loop of Board.is_solved: for elem in vial, from position i
RECURSIVE VialUniform(_, _, _)
VialUniform(vial, first_elem, i) ==
    IF i > Len(vial) THEN TRUE
    ELSE IF vial[i] # first_elem THEN FALSE
    ELSE VialUniform(vial, first_elem, i + 1)

\* the outer loop of Board.is_solved: for vial in self.vials, from position i
RECURSIVE SolvedFrom(_, _, _)
SolvedFrom(vs, size, i) ==
    IF i > Len(vs) THEN TRUE
    ELSE IF Len(vs[i]) = 0 THEN SolvedFrom(vs, size, i + 1)
    ELSE IF Len(vs[i]) # size THEN FALSE
    ELSE IF ~VialUniform(vs[i], vs[i][1], 1) THEN FALSE
    ELSE SolvedFrom(vs, size, i + 1)

\* Board.is_solved without the test len(vial) != self.vial_size
is_solved_NoFullTest(vs, size) == \A i \in 1..Len(vs) : Len(vs[i]) = 0 \/ VialUniform(vs[i], vs[i][1], 1)

\* Board.is_solved()
is_solved(vs, size) == SolvedFrom(vs, size, 1)

\* ------------------------------------------------- Spec: the Board's API
\* Board.__init__ on what load_board accepts: no vial longer than vial_size
Init ==
    /\ vial_size \in 0..MaxVialSize
    /\ vials \in BoardsOf(vial_size)
    /\ history = <<>>
    /\ pc = "idle"
    /\ op = "none"
    /\ act = NoAction
    /\ ret = FALSE
    /\ error = "none"
    /\ snap = vials
    /\ hsnap = <<>>
    /\ init_vials = vials
    /\ init_size = vial_size
    /\ selected_vial_index = None
    /\ comment = "none"
    /\ playing = TRUE
    /\ user_line = ""
    /\ line = NoLine
    /\ line_no = 0
    /\ board = NoBoard
    /\ status = "running"

\* an operation that goes through Board.apply_action
Recorded(name, a) ==
    /\ pc = "idle"
    /\ Len(history) < MaxHistory
    /\ \E r \in {apply_action(a, vials, history, vial_size)} :
          /\ op' = name
          /\ act' = NoAction
          /\ ret' = r.ret
          /\ vials' = r.vials
          /\ history' = r.history
          /\ pc' = IF r.hung THEN "hung" ELSE "idle"
    /\ error' = "none"
    /\ snap' = vials
    /\ hsnap' = history
    /\ UNCHANGED <<vial_size, init_vials, init_size>>
    /\ UNCHANGED playvars
    /\ UNCHANGED mainvars

\* Board.pour(from_vial_index, to_vial_index)
Pour(f, t) == Recorded("pour", PourAction(f, t))

\* Board.add_empty_vial()
AddEmptyVial == Len(vials) < MaxNumVials /\ Recorded("add", AddEmptyVialAction)

\* Board.undo()
Undo ==
    /\ pc = "idle"
    /\ \E r \in {Board_undo(vials, history)} :
          /\ op' = "undo"
          /\ act' = r.action
          /\ vials' = r.vials
          /\ history' = r.history
          /\ error' = r.error
          /\ pc' = IF r.error = "none" THEN "idle" ELSE "raised"
    /\ snap' = vials
    /\ hsnap' = history
    /\ UNCHANGED <<vial_size, ret, init_vials, init_size>>
    /\ UNCHANGED playvars
    /\ UNCHANGED mainvars

\* Board.is_solved()
IsSolved ==
    /\ pc = "idle"
    /\ op' = "is_solved"
    /\ ret' = is_solved(vials, vial_size)
    /\ act' = NoAction
    /\ error' = "none"
    /\ snap' = vials
    /\ hsnap' = history
    /\ UNCHANGED <<vial_size, vials, history, pc, init_vials, init_size>>
    /\ UNCHANGED playvars
    /\ UNCHANGED mainvars

Next ==
    \/ \E f \in Indices(vials), t \in Indices(vials) : Pour(f, t)
    \/ AddEmptyVial
    \/ Undo

Spec == Init /\ [][Next]_vars

\* the pure function is_solved on every board within the bounds
NextSolved == IsSolved

SpecSolved == Init /\ [][NextSolved]_vars

\* --------------------------- SpecPour: a PourAction object used directly
\* action = PourAction(f, t), on the board as it is
Construct(f, t) ==
    /\ pc \in {"idle", "applied", "undone", "raised"}
    /\ op' = "construct"
    /\ act' = PourAction(f, t)
    /\ ret' = FALSE
    /\ error' = "none"
    /\ snap' = vials
    /\ pc' = "constructed"
    /\ UNCHANGED <<vial_size, vials, history, hsnap, init_vials, init_size>>
    /\ UNCHANGED playvars
    /\ UNCHANGED mainvars

\* action.apply(board), once per object
Apply ==
    LET r == PourAction_apply(act, vials, vial_size)
    IN  /\ pc = "constructed"
        /\ op' = "apply"
        /\ act' = r.action
        /\ ret' = r.ret
        /\ vials' = r.vials
        /\ snap' = vials
        /\ pc' = IF r.hung THEN "hung" ELSE "applied"
        /\ UNCHANGED <<vial_size, history, error, hsnap, init_vials, init_size>>
        /\ UNCHANGED playvars
        /\ UNCHANGED mainvars

\* action.undo(board), before apply or right after it; snap stays what it
\* was before the apply (or at the construction)
ActionUndo ==
    LET r == PourAction_undo(act, vials)
    IN  /\ pc \in {"constructed", "applied"}
        /\ op' = "action_undo"
        /\ vials' = r.vials
        /\ error' = r.error
        /\ pc' = IF r.error = "none" THEN "undone" ELSE "raised"
        /\ UNCHANGED <<vial_size, history, act, ret, snap, hsnap, init_vials, init_size>>
        /\ UNCHANGED playvars
        /\ UNCHANGED mainvars

\* AddEmptyVialAction().apply(board), the action object used directly.
\* The vials are added before the first PourAction is made: a vial added
\* later is as empty and as much at the end, so no board is lost.
ApplyAdd ==
    /\ pc = "idle"
    /\ op \in {"none", "apply_add"}
    /\ Len(vials) < MaxNumVials
    /\ op' = "apply_add"
    /\ act' = AddEmptyVialAction
    /\ ret' = AddEmptyVialAction_apply(AddEmptyVialAction, vials).ret
    /\ vials' = AddEmptyVialAction_apply(AddEmptyVialAction, vials).vials
    /\ error' = "none"
    /\ snap' = vials
    /\ pc' = "idle"
    /\ UNCHANGED <<vial_size, history, hsnap, init_vials, init_size>>
    /\ UNCHANGED playvars
    /\ UNCHANGED mainvars

NextPour ==
    \/ \E f \in Indices(vials), t \in Indices(vials) : Construct(f, t)
    \/ Apply
    \/ ActionUndo

SpecPour == Init /\ [][NextPour]_vars

\* PourAction.apply on boards that AddEmptyVialAction.apply has lengthened
NextApply ==
    \/ \E f \in Indices(vials), t \in Indices(vials) : Construct(f, t)
    \/ Apply
    \/ ApplyAdd

SpecApply == Init /\ [][NextApply]_vars

\* ------------------------------------------------------------ play_board
\* the decimal numerals the user may type, by value
Digits == <<"0", "1", "2", "3", "4", "5", "6", "7", "8", "9">>

\* int(user_line): the value of a numeral, ValueError (ok = FALSE) for any
\* other line
ParseInt(typed) ==
    IF \E k \in 1..Len(Digits) : Digits[k] = typed
    THEN [ok |-> TRUE, value |-> (CHOOSE k \in 1..Len(Digits) : Digits[k] = typed) - 1]
    ELSE [ok |-> FALSE, value |-> 0]

\* user_line.lower() on the lines of UserLines
Lower(typed) ==
    CASE typed = "C" -> "c"
      [] typed = "Undo" -> "undo"
      [] OTHER -> typed

\* the stripped lines input() may give: the empty line, every numeral from
\* 0 to one past the largest number of vials, each command (some in
\* another case too), and a line that is no command
UserLines ==
    {"", "c", "C", "v", "u", "Undo", "help", "xyzzy", "q"}
        \cup {Digits[k + 1] : k \in 0..(MaxNumVials + 1)}

\* Board.is_vial_empty(vial_index)
is_vial_empty(vs, vial_index) == Len(At(vs, vial_index)) = 0

\* Board.get_num_vials()
get_num_vials(vs) == Len(vs)

\* Board.pour(from_vial_index, to_vial_index) with indices that need not be
\* in range (none is negative in play_board): board.vials[index] in
\* PourAction.apply raises IndexError before anything is changed
Board_pour(f, t, vs, hist, size) ==
    IF f >= Len(vs) \/ t >= Len(vs)
    THEN [vials |-> vs, history |-> hist, ret |-> FALSE, hung |-> FALSE, error |-> "IndexError"]
    ELSE LET r == apply_action(PourAction(f, t), vs, hist, size)
         IN  [vials |-> r.vials, history |-> r.history, ret |-> r.ret, hung |-> r.hung, error |-> "none"]

\* what one pass of the loop body leaves when it calls no Board operation
Handled(vs, hist, sel, cm) ==
    [vials |-> vs, history |-> hist, selected |-> sel, comment |-> cm, op |-> "none",
     act |-> NoAction, ret |-> FALSE, hung |-> FALSE, error |-> "none"]

\* the try block of play_board for a line that is a numeral, vial_index
\* being int(user_line) - 1; no exception but ValueError is caught, so an
\* error of Board.pour leaves the loop before the selection is cleared.
\* No numeral is one of the commands tested after the try block.
NumberLine(vial_index, vs, hist, size, sel) ==
    IF vial_index < 0 \/ vial_index >= get_num_vials(vs)
    THEN Handled(vs, hist, sel, "That vial does not exist")
    ELSE IF sel = None
    THEN IF is_vial_empty(vs, vial_index)
         THEN Handled(vs, hist, sel, "That vial is empty")
         ELSE Handled(vs, hist, vial_index, "none")
    ELSE IF sel # vial_index
    THEN LET r == Board_pour(sel, vial_index, vs, hist, size)
         IN  [vials |-> r.vials, history |-> r.history,
              selected |-> IF r.error = "none" THEN None ELSE sel,
              comment |-> "none", op |-> "pour", act |-> PourAction(sel, vial_index),
              ret |-> r.ret, hung |-> r.hung, error |-> r.error]
    ELSE Handled(vs, hist, None, "none")

\* the tests of play_board after the try block, for a line that is no
\* numeral; "help" does not end the pass, the tests after it still run
TextLine(typed, vs, hist, size, sel) ==
    IF typed = "c" \/ typed = "C"
    THEN Handled(vs, hist, None, "none")
    ELSE IF typed = "v" \/ typed = "V"
    THEN LET r == apply_action(AddEmptyVialAction, vs, hist, size)
         IN  [vials |-> r.vials, history |-> r.history, selected |-> sel, comment |-> "none",
              op |-> "add_empty_vial", act |-> NoAction, ret |-> r.ret, hung |-> r.hung,
              error |-> "none"]
    ELSE LET cm == IF Lower(typed) = "help" THEN "help" ELSE "none"
         IN  IF typed = "u" \/ typed = "U" \/ Lower(typed) = "undo"
             THEN LET r == Board_undo(vs, hist)
                  IN  [vials |-> r.vials, history |-> r.history, selected |-> sel,
                       comment |-> cm, op |-> "undo", act |-> r.action, ret |-> FALSE,
                       hung |-> FALSE, error |-> r.error]
             ELSE IF Lower(typed) = "xyzzy"
             THEN Handled(vs, hist, sel, "Nothing happens")
             ELSE Handled(vs, hist, sel, cm)

\* one pass of the loop body of play_board from the line read on
HandleLine(typed, vs, hist, size, sel) ==
    IF Len(typed) = 0
    THEN Handled(vs, hist, sel, "none")
    ELSE IF ParseInt(typed).ok
    THEN NumberLine(ParseInt(typed).value - 1, vs, hist, size, sel)
    ELSE TextLine(typed, vs, hist, size, sel)

\* play_board(board) is called with the board as loaded
InitPlay ==
    /\ vial_size \in 0..MaxVialSize
    /\ vials \in BoardsOf(vial_size)
    /\ history = <<>>
    /\ pc = "render"
    /\ op = "none"
    /\ act = NoAction
    /\ ret = FALSE
    /\ error = "none"
    /\ snap = vials
    /\ hsnap = history
    /\ init_vials = vials
    /\ init_size = vial_size
    /\ selected_vial_index = None
    /\ comment = "none"
    /\ playing = TRUE
    /\ user_line = ""
    /\ line = NoLine
    /\ line_no = 0
    /\ board = NoBoard
    /\ status = "running"

\* the top of the loop body up to input(): the board is drawn, then
\* is_solved is tested; a solved board clears playing and the loop ends
Render ==
    /\ pc = "render"
    /\ playing
    /\ IF is_solved(vials, vial_size)
       THEN playing' = FALSE /\ pc' = "done" /\ UNCHANGED comment
       ELSE comment' = "none" /\ pc' = "prompt" /\ UNCHANGED playing
    /\ UNCHANGED <<vial_size, vials, history, op, act, ret, error, snap, hsnap, init_vials, init_size>>
    /\ UNCHANGED <<selected_vial_index, user_line>>
    /\ UNCHANGED mainvars

\* input() returns a line and the rest of the loop body handles it
Command(typed) ==
    /\ pc = "prompt"
    /\ \E r \in {HandleLine(typed, vials, history, vial_size, selected_vial_index)} :
          /\ r.op \in {"pour", "add_empty_vial"} => Len(history) < MaxHistory
          /\ r.op = "add_empty_vial" => Len(vials) < MaxNumVials
          /\ vials' = r.vials
          /\ history' = r.history
          /\ selected_vial_index' = r.selected
          /\ comment' = r.comment
          /\ op' = r.op
          /\ act' = r.act
          /\ ret' = r.ret
          /\ error' = r.error
          /\ pc' = IF r.error # "none" THEN "crashed" ELSE IF r.hung THEN "hung" ELSE "render"
    /\ user_line' = typed
    /\ UNCHANGED <<vial_size, playing, snap, hsnap, init_vials, init_size>>
    /\ UNCHANGED mainvars

NextPlay ==
    \/ Render
    \/ \E typed \in UserLines : Command(typed)

SpecPlay == InitPlay /\ [][NextPlay]_vars

\* ------------------------------------------------- load_board and main
\* the most lines main reads from a puzzle file, the most vials a line
\* holds and the most units a vial of a line holds
MaxLines == 2
MaxFileVials == 2
MaxFileUnits == 2

\* A line of the puzzle file is given by the JSON value its text denotes,
\* or JInvalid for a text that is no JSON.  A float stands for 2.5.
JInvalid == [t |-> "invalid"]
JNull == [t |-> "null"]
JFloat == [t |-> "float"]
JInt(n) == [t |-> "int", v |-> n]
JStr(str) == [t |-> "str", v |-> str]
JList(items) == [t |-> "list", v |-> items]
JDict(fields) == [t |-> "dict", v |-> fields]

\* the sequences over a set of length at most n
SeqUpTo(S, n) == UNION {[1..m -> S] : m \in 0..n}

\* the values a line may give for a unit, a vial, "vials" and "vial_size"
UnitValues == {JInt(c) : c \in 0..MaxColor} \cup {JStr("0")}
VialValues == {JList(u) : u \in SeqUpTo(UnitValues, MaxFileUnits)} \cup {JInt(0), JNull}
VialsValues == {JList(vs) : vs \in SeqUpTo(VialValues, MaxFileVials)} \cup {JNull, JStr("[]")}
VialSizeValues == {JInt(n) : n \in (-1)..MaxVialSize} \cup {JNull, JFloat, JStr("2"), JList(<<>>)}

\* the lines a puzzle file may hold
FileLines ==
    {JInvalid, JNull, JFloat, JInt(5), JStr("x"), JStr("vial_size"), JStr("vial_size vials"),
     JList(<<>>), JList(<<JInt(1)>>), JList(<<JStr("vial_size"), JStr("vials")>>), JDict(<<>>)}
        \cup {JDict([vial_size |-> n]) : n \in VialSizeValues}
        \cup {JDict([vials |-> vs]) : vs \in VialsValues}
        \cup {JDict([vial_size |-> n, vials |-> vs]) : n \in VialSizeValues, vs \in VialsValues}

\* key in data, for the values a key can be looked for in: a key of a
\* dict, an element of a list, a part of a string
Contains(key, data) ==
    CASE data.t = "dict" -> key \in DOMAIN data.v
      [] data.t = "list" -> \E i \in 1..Len(data.v) : data.v[i] = JStr(key)
      [] data.t = "str" -> data.v = key \/ data.v = "vial_size vials"
      [] OTHER -> FALSE

\* isinstance(unit, int): a JSON number without a fraction (and a bool)
IsInt(unit) == unit.t \in {"int", "bool"}

\* what load_board raises or returns
Raise(kind, message) == [error |-> kind, message |-> message, board |-> NoBoard]
Board(size, vs) == [loaded |-> TRUE, vial_size |-> size, vials |-> vs]

\* for unit in vial, from the i-th unit on
RECURSIVE CheckUnits(_, _)
CheckUnits(vial, i) ==
    IF i > Len(vial)
    THEN "none"
    ELSE IF ~IsInt(vial[i])
    THEN "Every element in every vial must be an integer."
    ELSE CheckUnits(vial, i + 1)

\* the body of "for vial in vials": len(vial) > vial_size compares an int
\* with whatever "vial_size" holds, which raises TypeError unless that is a
\* number
CheckVial(vial, size) ==
    IF vial.t # "list"
    THEN Raise("ValueError", "Every element in \"vials\" must be an array.")
    ELSE IF size.t \notin {"int", "float"}
    THEN Raise("TypeError", "'>' not supported")
    ELSE IF (size.t = "int" /\ Len(vial.v) > size.v) \/ (size.t = "float" /\ Len(vial.v) >= 3)
    THEN Raise("ValueError", "Vial contains too many units")
    ELSE IF CheckUnits(vial.v, 1) # "none"
    THEN Raise("ValueError", CheckUnits(vial.v, 1))
    ELSE Raise("none", "")

\* for vial in vials, from the i-th vial on: the first error ends it
RECURSIVE CheckVials(_, _, _)
CheckVials(vs, size, i) ==
    IF i > Len(vs)
    THEN Raise("none", "")
    ELSE IF CheckVial(vs[i], size).error # "none"
    THEN CheckVial(vs[i], size)
    ELSE CheckVials(vs, size, i + 1)

\* load_board(line)
load_board(l) ==
    IF l.t = "invalid"
    THEN Raise("ValueError", "Invalid JSON")
    ELSE IF l.t \notin {"dict", "list", "str"}
    THEN Raise("TypeError", "argument is not iterable")
    ELSE IF ~Contains("vial_size", l)
    THEN Raise("ValueError", "Key \"vial_size\" is required")
    ELSE IF l.t # "dict"
    THEN Raise("TypeError", "indices must be integers")
    ELSE IF ~Contains("vials", l)
    THEN Raise("ValueError", "Key \"vials\" is required")
    ELSE IF l.v.vials.t # "list"
    THEN Raise("ValueError", "Key \"vials\" must be an array")
    ELSE IF CheckVials(l.v.vials.v, l.v.vial_size, 1).error # "none"
    THEN CheckVials(l.v.vials.v, l.v.vial_size, 1)
    ELSE [error |-> "none", message |-> "", board |-> Board(l.v.vial_size, l.v.vials)]

\* main has opened the puzzle file (stdout is a terminal)
InitLoad ==
    /\ vial_size = 0
    /\ vials = <<>>
    /\ history = <<>>
    /\ pc = "main"
    /\ op = "none"
    /\ act = NoAction
    /\ ret = FALSE
    /\ error = "none"
    /\ snap = vials
    /\ hsnap = <<>>
    /\ init_vials = vials
    /\ init_size = vial_size
    /\ selected_vial_index = None
    /\ comment = "none"
    /\ playing = TRUE
    /\ user_line = ""
    /\ line = NoLine
    /\ line_no = 0
    /\ board = NoBoard
    /\ status = "running"

\* what main does not touch
boardvars == <<vial_size, vials, history, op, act, ret, snap, hsnap, init_vials, init_size>>

\* one pass of "for line in puzzle_file" up to the call of play_board: a
\* ValueError is printed with line_no and main returns 1, any other
\* exception leaves main
LoadLine(l) ==
    /\ pc = "main"
    /\ line_no < MaxLines
    /\ line' = l
    /\ line_no' = line_no + 1
    /\ \E r \in {load_board(l)} :
          /\ error' = r.error
          /\ board' = r.board
          /\ pc' = CASE r.error = "none" -> "playing"
                     [] r.error = "ValueError" -> "returned"
                     [] OTHER -> "crashed"
          /\ status' = IF r.error = "ValueError" THEN "return 1" ELSE status
    /\ UNCHANGED boardvars
    /\ UNCHANGED playvars

\* play_board(board) returns (its passes are SpecPlay) and the for
\* statement is reached again
Played ==
    /\ pc = "playing"
    /\ pc' = "main"
    /\ UNCHANGED <<error, line, line_no, board, status>>
    /\ UNCHANGED boardvars
    /\ UNCHANGED playvars

\* the puzzle file has no more lines: main falls off its end
EndOfFile ==
    /\ pc = "main"
    /\ pc' = "returned"
    /\ status' = "return None"
    /\ UNCHANGED <<error, line, line_no, board>>
    /\ UNCHANGED boardvars
    /\ UNCHANGED playvars

NextLoad ==
    \/ \E l \in FileLines : LoadLine(l)
    \/ Played
    \/ EndOfFile

SpecLoad == InitLoad /\ [][NextLoad]_vars

\* ------------------------------------------------ claims about PourAction
\* the two indices of the PourAction the caller holds
From == act.from_index
To == act.to_index

\* the length of the maximal run of units equal to the top unit, at the top
\* of a non-empty vial
TopRunLen(vial) == CHOOSE k \in 1..Len(vial) : /\ \A i \in (Len(vial) - k + 1)..Len(vial) : vial[i] = Top(vial)
                                               /\ (k = Len(vial) \/ vial[Len(vial) - k] # Top(vial))

Min(a, b) == IF a <= b THEN a ELSE b

\* C1 (as claimed): a Pour with from_index = to_index completes, returns
\* false and leaves every vial as it was, whatever the vial holds.
C1_SelfPourIsNoOp ==
    (op = "apply" /\ From = To) => (pc = "applied" /\ ret = FALSE /\ vials = snap)

\* C2: when apply returned true (distinct indices), undo right after it
\* leaves every vial holding exactly the units it held before the apply.
C2_UndoRestoresPour ==
    (op = "action_undo" /\ act.applied /\ ret /\ From # To) => (pc = "undone" /\ vials = snap)

\* a pour onto a non-empty vial undone, units staying below in the source
C2_Witness ==
    /\ op = "action_undo" /\ act.applied /\ ret /\ From # To
    /\ pc = "undone"
    /\ act.qty_moved >= 1
    /\ Len(At(vials, From)) > act.qty_moved
    /\ Len(At(vials, To)) >= 1

\* C6: for distinct indices, a non-empty source and a destination that is
\* empty or has the source's top colour, apply moves n = min(k, vial_size -
\* len(destination)) units, k the length of the source's top run: they leave
\* the top of the source, land on top of the destination, and qty_moved = n.
C6_PourMovesCappedRun ==
    (/\ op = "apply" /\ From # To
     /\ Len(At(snap, From)) > 0
     /\ (Len(At(snap, To)) = 0 \/ Top(At(snap, To)) = Top(At(snap, From))))
    => LET src == At(snap, From)
           dst == At(snap, To)
           n == Min(TopRunLen(src), vial_size - Len(dst))
       IN  /\ pc = "applied"
           /\ act.qty_moved = n
           /\ At(vials, From) = SubSeq(src, 1, Len(src) - n)
           /\ At(vials, To) = dst \o SubSeq(src, Len(src) - n + 1, Len(src))

\* a pour of a run of two that the destination's capacity cuts to one
C6_Witness ==
    /\ op = "apply" /\ From # To /\ pc = "applied"
    /\ Len(At(snap, From)) > 0
    /\ Len(At(snap, To)) > 0
    /\ Top(At(snap, To)) = Top(At(snap, From))
    /\ TopRunLen(At(snap, From)) >= 2
    /\ act.qty_moved = 1
    /\ Len(At(vials, To)) = vial_size

\* C8: for distinct indices apply returns false exactly when the source is
\* empty, or the destination is non-empty with another top colour, or the
\* destination holds vial_size units; it then changes no vial and raises
\* nothing.
C8_PourRefusedExactlyWhen ==
    (op = "apply" /\ From # To)
    => LET src == At(snap, From)
           dst == At(snap, To)
           refused == \/ Len(src) = 0
                      \/ (Len(dst) > 0 /\ Len(src) > 0 /\ Top(dst) # Top(src))
                      \/ Len(dst) = vial_size
       IN  /\ pc = "applied"
           /\ error = "none"
           /\ (ret = FALSE) <=> refused
           /\ (ret = FALSE) => vials = snap

\* a pour onto a full vial of the same top colour, refused
C8_Witness ==
    /\ op = "apply" /\ From # To /\ pc = "applied"
    /\ ret = FALSE
    /\ Len(At(snap, From)) > 0
    /\ Len(At(snap, To)) = vial_size
    /\ Top(At(snap, To)) = Top(At(snap, From))

\* C10: undo of a PourAction that was never applied raises and changes no
\* vial.
C10_UndoBeforeApplyRaises ==
    (op = "action_undo" /\ ~act.applied) => (pc = "raised" /\ error = "ValueError" /\ vials = snap)

C10_Witness ==
    /\ op = "action_undo" /\ ~act.applied
    /\ pc = "raised"
    /\ From # To
    /\ Len(At(vials, From)) > 0 /\ Len(At(vials, To)) > 0

\* C14: apply on distinct indices changes at most the vials at from_index
\* and to_index: the other vials, the number and order of the vials and
\* vial_size stay as they were, whether units moved or not.
C14_PourTouchesOnlyItsTwoVials ==
    (op = "apply" /\ From # To) =>
        /\ Len(vials) = Len(snap)
        /\ \A i \in Indices(snap) \ {From, To} : At(vials, i) = At(snap, i)
        /\ vial_size = init_size

\* a pour that moved units next to a third vial that holds units
C14_Witness ==
    /\ op = "apply" /\ From # To /\ pc = "applied" /\ ret
    /\ Len(vials) = 3
    /\ \E i \in Indices(vials) \ {From, To} : Len(At(vials, i)) > 0

\* ---------------------------------------------------- claims about Board
\* Board.undo called again and again until the history is empty
RECURSIVE UndoAll(_, _)
UndoAll(vs, hist) ==
    IF Len(hist) = 0 THEN vs
    ELSE UndoAll(Board_undo(vs, hist).vials, Board_undo(vs, hist).history)

\* C3: from a board with an empty history, after any pour, add_empty_vial and
\* undo calls, undoing until the history is empty gives the initial vials:
\* as many, in the same order, with the same contents.
C3_UndoAllRestoresInitial ==
    /\ UndoAll(vials, history) = init_vials
    /\ error = "none"

\* the undo that empties a history and gives the initial board back
C3_Witness ==
    /\ op = "undo" /\ pc = "idle"
    /\ history = <<>> /\ hsnap # <<>>
    /\ act.kind = "pour"
    /\ snap # init_vials
    /\ vials = init_vials

\* C4: no vial ever holds more than vial_size units, and vial_size stays
\* what the constructor was given.
C4_CapacityKept ==
    /\ \A i \in 1..Len(vials) : Len(vials[i]) <= vial_size
    /\ vial_size = init_size

\* a pour that stopped at the destination's capacity with the colour still
\* on top of the source
C4_Witness ==
    /\ op = "pour" /\ pc = "idle" /\ ret
    /\ \E i, j \in 1..Len(vials) :
          /\ i # j
          /\ Len(vials[i]) = vial_size /\ Len(snap[i]) < vial_size /\ Len(snap[i]) > 0
          /\ Len(vials[j]) > 0 /\ Len(vials[j]) < Len(snap[j])
          /\ Top(vials[j]) = Top(vials[i])

\* C5: pour and add_empty_vial append their action to the history exactly
\* when it changed the vials; a pour that moved nothing leaves vials and
\* history as they were; every Pour in the history moved at least one unit.
C5_HistoryHoldsOnlyEffects ==
    /\ (op \in {"pour", "add"} /\ pc = "idle") =>
          /\ (vials # snap) <=> (Len(history) = Len(hsnap) + 1)
          /\ (vials = snap) => (history = hsnap /\ ret = FALSE)
          /\ (vials # snap) => (Popped(history) = hsnap /\ ret = TRUE)
    /\ (op = "add") => (vials # snap /\ Top(history) = AddEmptyVialAction)
    /\ (op = "pour" /\ vials # snap) => (Top(history).kind = "pour")
    /\ \A i \in 1..Len(history) :
          /\ history[i].kind \in {"pour", "add"}
          /\ history[i].kind = "pour" => (history[i].applied /\ history[i].qty_moved >= 1)

\* a pour that moved nothing, dropped, with a recorded pour in the history
C5_Witness ==
    /\ op = "pour" /\ pc = "idle" /\ ~ret
    /\ Len(history) >= 1 /\ history = hsnap
    /\ Top(history).kind = "pour"
    /\ \E i \in 1..Len(vials) : Len(vials[i]) > 0

\* C9: add_empty_vial is always recorded: one empty vial more at the end,
\* the others as they were, the history one longer; and Board.undo called
\* right after it gives the vials (their number and contents) of before.
C9_AddVialThenUndo ==
    /\ [](op = "add" => /\ pc = "idle" /\ ret = TRUE
                        /\ vials = Append(snap, <<>>)
                        /\ history = Append(hsnap, AddEmptyVialAction))
    /\ [][(op = "add" /\ op' = "undo") => (vials' = snap /\ history' = hsnap /\ error' = "none")]_vars

\* the undo of an add_empty_vial made on a board that pours had changed
C9_Witness ==
    /\ op = "undo" /\ pc = "idle"
    /\ act = AddEmptyVialAction
    /\ Len(vials) + 1 = Len(snap)
    /\ Len(history) >= 1
    /\ vials # init_vials

\* the action as it was constructed, before its apply
Fresh(a) == IF a.kind = "pour" THEN PourAction(a.from_index, a.to_index) ELSE a

\* the vials that applying the actions of hist, oldest first, makes of vs
RECURSIVE Replay(_, _, _)
Replay(vs, hist, size) ==
    IF Len(hist) = 0 THEN vs
    ELSE Action_apply(Fresh(Top(hist)), Replay(vs, Popped(hist), size), size).vials

\* the number of AddEmptyVial actions in hist
RECURSIVE NumAdds(_)
NumAdds(hist) ==
    IF Len(hist) = 0 THEN 0
    ELSE (IF Top(hist).kind = "add" THEN 1 ELSE 0) + NumAdds(Popped(hist))

\* the number of units of colour c in the vials vs
RECURSIVE CountUnits(_, _)
CountUnits(vs, c) ==
    IF Len(vs) = 0 THEN 0
    ELSE Cardinality({i \in 1..Len(Top(vs)) : Top(vs)[i] = c}) + CountUnits(Popped(vs), c)

\* C12: Board.undo with an empty history changes neither the vials nor the
\* history and raises nothing.
C12_UndoOnEmptyHistoryIsNoOp ==
    (op = "undo" /\ hsnap = <<>>) =>
        (vials = snap /\ history = <<>> /\ error = "none" /\ pc = "idle")

\* an undo on an empty history, on a board with units and several vials
C12_Witness ==
    /\ op = "undo" /\ hsnap = <<>> /\ pc = "idle"
    /\ Len(vials) >= 2
    /\ \E i \in 1..Len(vials) : Len(vials[i]) > 0

\* C13: Board.undo with a non-empty history removes the newest entry only
\* (the others keep their order) and reverses that action only: the vials
\* become what the remaining history makes of the initial board.  pour and
\* add_empty_vial never remove or reorder an entry.
C13_UndoIsLastInFirstOut ==
    /\ (op = "undo" /\ hsnap # <<>>) =>
          /\ history = Popped(hsnap)
          /\ act = Top(hsnap)
          /\ vials = Replay(init_vials, history, vial_size)
    /\ (op \in {"pour", "add"}) =>
          /\ Len(history) >= Len(hsnap)
          /\ SubSeq(history, 1, Len(hsnap)) = hsnap

\* the undo of the newer of two recorded pours
C13_Witness ==
    /\ op = "undo" /\ Len(hsnap) = 2 /\ Len(history) = 1
    /\ history[1].kind = "pour" /\ act.kind = "pour"
    /\ act # history[1]
    /\ vials # init_vials /\ vials # snap

\* C15: whenever Board.undo reverses an AddEmptyVial action, the last vial
\* is the one that action added (it stands where the action put it) and it
\* is empty.
C15_UndoneAddRemovesItsEmptyVial ==
    (op = "undo" /\ act.kind = "add") =>
        /\ Len(snap) >= 1
        /\ Top(snap) = <<>>
        /\ Len(snap) = Len(Replay(init_vials, Popped(hsnap), vial_size)) + 1
        /\ vials = Popped(snap)
        /\ error = "none"

\* the undo of an add_empty_vial that gives back the initial board, which
\* holds units
C15_Witness ==
    /\ op = "undo" /\ act.kind = "add"
    /\ history = <<>>
    /\ vials = init_vials
    /\ \E i \in 1..Len(vials) : Len(vials[i]) > 0

\* C18: the number of vials is the initial number plus the number of
\* AddEmptyVial actions in the history; so it never falls below the initial
\* number and pour and add_empty_vial never lower it.
C18_VialCountFollowsHistory ==
    /\ Len(vials) = Len(init_vials) + NumAdds(history)
    /\ Len(vials) >= Len(init_vials)
    /\ (op \in {"pour", "add"}) => Len(vials) >= Len(snap)

\* an undo that lowered the number of vials back to the initial number
C18_Witness ==
    /\ op = "undo" /\ Len(vials) < Len(snap)
    /\ Len(vials) = Len(init_vials)
    /\ NumAdds(history) = 0 /\ Len(history) >= 1

\* C19: the units of every colour over all vials are as many as on the
\* initial board.
C19_UnitsConserved ==
    \A c \in Units : CountUnits(vials, c) = CountUnits(init_vials, c)

\* a recorded pour of two units on a board with two colours
C19_Witness ==
    /\ op = "pour" /\ ret /\ pc = "idle"
    /\ \E i \in 1..Len(vials) : Len(vials[i]) = Len(snap[i]) + 2
    /\ \A c \in Units : CountUnits(vials, c) >= 1

\* --------------------------------------------------- claim about is_solved
\* C7: is_solved is true exactly when every vial is empty or holds vial_size
\* units of one colour (so it is true of a board without vials).
C7_SolvedIffAllEmptyOrFullUniform ==
    (op = "is_solved") =>
        (ret <=> \A i \in 1..Len(vials) :
                    \/ Len(vials[i]) = 0
                    \/ /\ Len(vials[i]) = vial_size
                       /\ \A j, k \in 1..Len(vials[i]) : vials[i][j] = vials[i][k])

\* a solved board with a full vial of one colour next to an empty one
C7_Witness ==
    /\ op = "is_solved" /\ ret
    /\ \E i, j \in 1..Len(vials) : Len(vials[i]) = 0 /\ Len(vials[j]) >= 2

TypeOK ==
    /\ vial_size \in 0..MaxVialSize
    /\ pc \in {"idle", "hung", "raised", "constructed", "applied", "undone"}
    /\ ret \in BOOLEAN
    /\ Len(history) <= MaxHistory

\* ---------------------------------------------------- claims: play_board
\* C16: in the command loop every Board.pour call has its source index
\* (the remembered selection) and its destination index inside
\* 0..get_num_vials()-1 of the board as it is at the time of the call, so
\* that no out-of-range index reaches the core.  A pour leaves the number
\* of vials as it was at the call.
C16_PourIndicesInRange ==
    op = "pour" =>
        /\ act.from_index \in Indices(vials)
        /\ act.to_index \in Indices(vials)
        /\ error = "none"

\* C17: a command is read only while the board is not solved, the loop
\* ends at the first render of a solved board, and as long as the board is
\* not solved the loop is still rendering and prompting.
C17_LoopEndsExactlyWhenSolved ==
    /\ pc = "prompt" => ~is_solved(vials, vial_size)
    /\ pc = "done" => is_solved(vials, vial_size) /\ ~playing
    /\ ~is_solved(vials, vial_size) => pc \in {"render", "prompt"}

\* C20: a pass of the loop never pours a vial into itself; a numeral that
\* names the selected vial clears the selection and calls no Board
\* operation; and a vial that is empty when chosen is not taken as the
\* selection.
C20_NoSelfPourAndNoEmptySource ==
    [][pc = "prompt" /\ pc' # "prompt" =>
          /\ op' = "pour" => act'.from_index # act'.to_index
          /\ (/\ selected_vial_index # None
              /\ ParseInt(user_line').ok
              /\ ParseInt(user_line').value - 1 = selected_vial_index)
                => /\ selected_vial_index' = None
                   /\ op' = "none"
                   /\ vials' = vials
                   /\ history' = history
          /\ (selected_vial_index = None /\ selected_vial_index' # None)
                => ~is_vial_empty(vials, selected_vial_index')]_vars

\* ---------------------------------------------------- claims: load_board
\* the format of a puzzle line as the claim lists it: a record with both
\* fields, vial_size an integer, vials an array of arrays of integers, no
\* inner array longer than vial_size
ConformsVial(vial, size) ==
    /\ vial.t = "list"
    /\ Len(vial.v) <= size
    /\ \A i \in 1..Len(vial.v) : vial.v[i].t = "int"

Conforms(l) ==
    /\ l.t = "dict"
    /\ DOMAIN l.v = {"vial_size", "vials"}
    /\ l.v.vial_size.t = "int"
    /\ l.v.vials.t = "list"
    /\ \A i \in 1..Len(l.v.vials.v) : ConformsVial(l.v.vials.v[i], l.v.vial_size.v)

\* C11: a line that violates the puzzle format makes load_board raise
\* ValueError, so that main returns 1 at that line without playing it, and
\* no other kind of failure leaves the loader.
C11_FormatViolationIsLoadError ==
    /\ error \in {"none", "ValueError"}
    /\ pc = "playing" => Conforms(line)
    /\ (line_no > 0 /\ ~Conforms(line)) =>
          /\ pc = "returned"
          /\ status = "return 1"
          /\ error = "ValueError"
          /\ board = NoBoard


====
